---- MODULE Spec2Model ----
(***************************************************************************)
(* The timetable CSP scheduler of src/api/scheduler.py (CSPScheduler) and  *)
(* the POST /api/schedule/generate endpoint of src/api/routers/schedule.py *)
(* as a state machine.  The academic snapshot (rooms, courses, groups,     *)
(* sections) and the persisted tables (schedule, timeslots) are the shared *)
(* store; every request owns one CSPScheduler object and one DB session.   *)
(***************************************************************************)
EXTENDS Integers, Sequences, FiniteSets, TLC

(* ------------------------------------------------------------------ *)
(* Bounds of the explored snapshots                                   *)
(* ------------------------------------------------------------------ *)
MaxGroups == 2
MaxSections == 2
MaxRooms == 2
MaxStaff == 2
MaxCourses == 2
MaxDeadEnd == 1
MaxFairSessions == 3
MaxLevels == 1
MaxCohorts == 2
MaxStudents == 5
MaxRowId == 4

(* ------------------------------------------------------------------ *)
(* Calendar constants                                                 *)
(* ------------------------------------------------------------------ *)
NULL == -1

BLOCKS_PER_DAY == 8

DAYS == <<"Sunday", "Monday", "Tuesday", "Wednesday", "Thursday">>

\* BLOCK_TIMES[b + 1] = <<start, end>> of block b, a wall-clock "HH:MM" being <<HH, MM>>
BLOCK_TIMES ==
  << << <<9, 0>>,   <<9, 45>>  >>,
     << <<9, 45>>,  <<10, 30>> >>,
     << <<10, 45>>, <<11, 30>> >>,
     << <<11, 30>>, <<12, 15>> >>,
     << <<12, 30>>, <<13, 15>> >>,
     << <<13, 15>>, <<14, 0>>  >>,
     << <<14, 15>>, <<15, 0>>  >>,
     << <<15, 0>>,  <<15, 45>> >> >>

VALID_START_BLOCKS == <<0, 2, 4, 6>>

Requests == {1, 2}

VARIABLES
  levels,                \* table levels
  rooms,                 \* table rooms, in query order
  courses,               \* table courses with the two qualification relations
  groups,                \* table groups
  sections,              \* table sections
  schedule,              \* committed rows of table schedule
  timeslots,             \* committed rows of table timeslots
  pc,                    \* per request: where its generate call stands
  variables,             \* per request: CSPScheduler.variables
  assignments,           \* per request: CSPScheduler.assignments
  rooms_by_type,         \* per request: CSPScheduler.rooms_by_type
  instructors_by_course, \* per request: CSPScheduler.instructors_by_course
  tas_by_course,         \* per request: CSPScheduler.tas_by_course
  frames,                \* per request: per active _backtrack frame, the position of its pushed candidate
  cursor,                \* per request: next domain position the innermost frame's loop looks at
  result,                \* per request: the list _save_schedule builds
  pendingSched,          \* per request: schedule rows added in the session, not committed
  pendingSlots,          \* per request: timeslot rows flushed in the session, not committed
  errKind,               \* per request: which raise ended the run
  errVar,                \* per request: the variable a capacity error cites
  atStart,               \* per request: the persisted tables when the request entered generate_schedule
  calls,                 \* per request: generate_schedule calls made on its CSPScheduler object
  first                  \* per request: the outcome of the first call, once a second is made

snapshotVars == <<levels, rooms, courses, groups, sections>>
storeVars == <<schedule, timeslots>>
schedulerVars == <<variables, assignments, rooms_by_type, instructors_by_course, tas_by_course,
                   frames, cursor>>
sessionVars == <<result, pendingSched, pendingSlots>>
vars == <<levels, rooms, courses, groups, sections, schedule, timeslots, pc, variables, assignments,
          rooms_by_type, instructors_by_course, tas_by_course, frames, cursor, result,
          pendingSched, pendingSlots, errKind, errVar, atStart, calls, first>>

(* ------------------------------------------------------------------ *)
(* Helpers                                                            *)
(* ------------------------------------------------------------------ *)
EmptyMap == [k \in {} |-> <<>>]

\* dict.get(k, [])
Get(m, k) == IF k \in DOMAIN m THEN m[k] ELSE <<>>

Range(s) == {s[i] : i \in 1..Len(s)}

Min(S) == CHOOSE x \in S : \A y \in S : x <= y

Max0(S) == IF S = {} THEN 0 ELSE CHOOSE x \in S : \A y \in S : y <= x

\* Python truthiness of an Optional[int]: None and 0 are falsy
Truthy(x) == x # NULL /\ x # 0

(* ------------------------------------------------------------------ *)
(* The explored snapshots                                             *)
(* ------------------------------------------------------------------ *)
Room(id, type, cap) == [room_id |-> id, room_type |-> type, capacity |-> cap]

\* nClass classrooms, then nLab labs, then nTheater theaters; ids from base upwards;
\* a snapshot that lists its rooms one by one carries them in roomRows
RoomTable(p) ==
  IF "roomRows" \in DOMAIN p THEN p.roomRows
  ELSE [i \in 1..(p.nClass + p.nLab + p.nTheater) |->
          IF i <= p.nClass THEN Room(p.base + i - 1, "Classroom", p.classCap)
          ELSE IF i <= p.nClass + p.nLab THEN Room(p.base + i - 1, "Lab", p.labCap)
          ELSE Room(p.base + i - 1, "Theater", 200)]

\* every group is on level 1; the groups are stored as create_level stores them, in
\* ascending group_number
GroupTable(p) ==
  [i \in 1..Len(p.cfg) |->
     [group_id |-> p.base + i - 1, level_id |-> 1,
      group_number |-> i,
      num_students |-> p.gsize]]

RECURSIVE SectionRows(_, _, _)
SectionRows(p, i, nextId) ==
  IF i > Len(p.cfg) THEN <<>>
  ELSE [j \in 1..p.cfg[i] |->
          [section_id |-> nextId + j - 1, group_id |-> p.base + i - 1, level_id |-> 1,
           section_number |-> nextId - p.base + j, num_students |-> p.ssize]]
       \o SectionRows(p, i + 1, nextId + p.cfg[i])

SectionTable(p) == SectionRows(p, 1, p.base)

\* the level rows the groups and courses of a snapshot refer to: level 1 with the
\* snapshot's groups, and level 2, without groups, when a course is on it
LevelTable(p) ==
  LET ls == {1} \cup {p.staff[k].level : k \in 1..Len(p.staff)}
      maxCfg == Max0({p.cfg[i] : i \in 1..Len(p.cfg)})
  IN [l \in 1..Max0(ls) |->
        [level_id |-> l, level_number |-> l,
         num_sections |-> IF l = 1 THEN Len(p.cfg) ELSE 0,
         num_groups_per_section |-> IF l = 1 THEN maxCfg ELSE 0,
         total_students |-> IF l = 1 THEN Len(p.cfg) * p.gsize ELSE 0]]

CourseTable(p) ==
  [k \in 1..Len(p.staff) |->
     [course_id |-> k, level_id |-> p.staff[k].level,
      instructors |-> p.staff[k].instr, tas |-> p.staff[k].tas]]

Cfgs == UNION {[1..n -> 0..MaxSections] : n \in 0..MaxGroups}

Prefix(b, n) == [i \in 1..n |-> b + i - 1]

\* one course on level 1 whose n instructors and n TAs are qualified
OneCourse(b, n) == <<[level |-> 1, instr |-> Prefix(b, n), tas |-> Prefix(b, n)]>>

\* snapshots where everything fits: rooms, staff and cohorts vary in number and ids
FamilyConflict ==
  {[cfg |-> c, gsize |-> 100, ssize |-> 16, base |-> b, nTheater |-> 0,
    nClass |-> nc, nLab |-> nl, classCap |-> 100, labCap |-> 100, staff |-> OneCourse(b, n)] :
     c \in Cfgs, b \in {0, 1}, nc \in 1..MaxRooms, nl \in 1..MaxRooms,
     n \in 1..MaxStaff}

\* snapshots around the size thresholds and room capacities
FamilyCapacity ==
  {[cfg |-> c, gsize |-> gs, ssize |-> ss, base |-> 1, nTheater |-> nt,
    nClass |-> nc, nLab |-> 1, classCap |-> cc, labCap |-> lc, staff |-> OneCourse(1, 1)] :
     c \in Cfgs, gs \in {100, 101}, ss \in {15, 16}, nt \in 0..1, nc \in {1},
     cc \in {15, 100}, lc \in {15, 100}}

StaffLists == {<<>>} \cup {<<i>> : i \in 1..MaxStaff}

CourseStaff == [level : {1, 2}, instr : StaffLists, tas : StaffLists]

\* snapshots whose courses differ in level and in qualified staff
FamilyStaff ==
  {[cfg |-> c, gsize |-> 100, ssize |-> 16, base |-> 1, nTheater |-> 0,
    nClass |-> 1, nLab |-> 1, classCap |-> 100, labCap |-> 100, staff |-> st] :
     c \in {<<>>, <<0>>, <<1>>, <<0, 1>>},
     st \in UNION {[1..n -> CourseStaff] : n \in 0..MaxCourses}}

\* one lecture more than the blocks of a week hold
CrowdGroups == (Len(DAYS) * BLOCKS_PER_DAY) \div 2 + 1

\* a snapshot with CrowdGroups groups whose lectures all need the one instructor, id 0
FamilyCrowded ==
  {[cfg |-> [i \in 1..CrowdGroups |-> 0], gsize |-> 100, ssize |-> 16, base |-> 0,
    nTheater |-> 0, nClass |-> 2, nLab |-> 1, classCap |-> 100, labCap |-> 100,
    staff |-> OneCourse(0, 1)]}

\* one course, one group of 50 with one section of 50, R1(Classroom, 60), R2(Lab, 60),
\* instructor 1 and TA 1
MinimalFeasible ==
  [cfg |-> <<1>>, gsize |-> 50, ssize |-> 50, base |-> 1,
   roomRows |-> <<Room(1, "Classroom", 60), Room(2, "Lab", 60)>>, staff |-> OneCourse(1, 1)]

\* a group of 150 whose section has 150, R1(Classroom, 100), R2(Theater, 200), R3(Lab, 40),
\* R4(Classroom, 40)
RoomForcedBySize ==
  [cfg |-> <<1>>, gsize |-> 150, ssize |-> 150, base |-> 1,
   roomRows |-> <<Room(1, "Classroom", 100), Room(2, "Theater", 200), Room(3, "Lab", 40),
                  Room(4, "Classroom", 40)>>,
   staff |-> OneCourse(1, 1)]

\* one group of 50 with one section of 10, a Classroom and a Lab that hold them
SmallTutorial ==
  [cfg |-> <<1>>, gsize |-> 50, ssize |-> 10, base |-> 1,
   roomRows |-> <<Room(1, "Classroom", 60), Room(2, "Lab", 60)>>, staff |-> OneCourse(1, 1)]

\* rooms of each type where the first listed is too small for the cohorts
MixedRooms ==
  [cfg |-> <<1>>, gsize |-> 100, ssize |-> 16, base |-> 1,
   roomRows |-> <<Room(1, "Classroom", 15), Room(2, "Lab", 15), Room(3, "Classroom", 100),
                  Room(4, "Lab", 100)>>,
   staff |-> OneCourse(1, 1)]

FamilyScenario == {MinimalFeasible, RoomForcedBySize, SmallTutorial, MixedRooms}

Families ==
  FamilyConflict \cup FamilyCapacity \cup FamilyStaff \cup FamilyCrowded \cup FamilyScenario

(* ------------------------------------------------------------------ *)
(* CSPScheduler: cache, variable generation                           *)
(* ------------------------------------------------------------------ *)
\* the loop of _load_cache over the rooms: append each room to the list of its type
RECURSIVE LoadRooms(_, _)
LoadRooms(rs, byType) ==
  IF rs = <<>> THEN byType
  ELSE LET room == Head(rs)
           t == room.room_type
       IN LoadRooms(Tail(rs),
                    [k \in DOMAIN byType \cup {t} |->
                       IF k = t THEN Append(Get(byType, t), room) ELSE byType[k]])

\* the loop of _load_cache over the courses: d[course_id] = list(course.<rel>)
LoadInstructors(cs, byCourse) ==
  [k \in DOMAIN byCourse \cup {cs[i].course_id : i \in 1..Len(cs)} |->
     IF \E i \in 1..Len(cs) : cs[i].course_id = k
     THEN (CHOOSE c \in Range(cs) : c.course_id = k).instructors
     ELSE byCourse[k]]

LoadTas(cs, byCourse) ==
  [k \in DOMAIN byCourse \cup {cs[i].course_id : i \in 1..Len(cs)} |->
     IF \E i \in 1..Len(cs) : cs[i].course_id = k
     THEN (CHOOSE c \in Range(cs) : c.course_id = k).tas
     ELSE byCourse[k]]

\* the LECTURE variable built with a Classroom required whatever the group's size
LectureVarClassroom(id, course, group) ==
  [var_id |-> id, course_id |-> course.course_id, session_type |-> "LECTURE",
   duration_blocks |-> 2, student_count |-> group.num_students,
   required_room_type |-> "Classroom",
   level_id |-> group.level_id, group_id |-> group.group_id,
   group_number |-> group.group_number, section_id |-> NULL, section_number |-> NULL]

LectureVar(id, course, group) ==
  [var_id |-> id, course_id |-> course.course_id, session_type |-> "LECTURE",
   duration_blocks |-> 2, student_count |-> group.num_students,
   required_room_type |-> IF group.num_students > 100 THEN "Theater" ELSE "Classroom",
   level_id |-> group.level_id, group_id |-> group.group_id,
   group_number |-> group.group_number, section_id |-> NULL, section_number |-> NULL]

LabVar(id, course, group, section) ==
  [var_id |-> id, course_id |-> course.course_id, session_type |-> "LAB",
   duration_blocks |-> 2, student_count |-> section.num_students,
   required_room_type |-> "Lab",
   level_id |-> section.level_id, group_id |-> group.group_id,
   group_number |-> group.group_number, section_id |-> section.section_id,
   section_number |-> section.section_number]

\* the TUTORIAL variable built with two blocks whatever the section's size
TutorialVarTwoBlocks(id, course, group, section) ==
  [var_id |-> id, course_id |-> course.course_id, session_type |-> "TUTORIAL",
   duration_blocks |-> 2,
   student_count |-> section.num_students,
   required_room_type |-> "Classroom",
   level_id |-> section.level_id, group_id |-> group.group_id,
   group_number |-> group.group_number, section_id |-> section.section_id,
   section_number |-> section.section_number]

\* the TUTORIAL variable with one block only below 15 students (`<` for `<=`)
TutorialVarBelow15(id, course, group, section) ==
  [var_id |-> id, course_id |-> course.course_id, session_type |-> "TUTORIAL",
   duration_blocks |-> IF section.num_students < 15 THEN 1 ELSE 2,
   student_count |-> section.num_students,
   required_room_type |-> "Classroom",
   level_id |-> section.level_id, group_id |-> group.group_id,
   group_number |-> group.group_number, section_id |-> section.section_id,
   section_number |-> section.section_number]

TutorialVar(id, course, group, section) ==
  [var_id |-> id, course_id |-> course.course_id, session_type |-> "TUTORIAL",
   duration_blocks |-> IF section.num_students <= 15 THEN 1 ELSE 2,
   student_count |-> section.num_students,
   required_room_type |-> "Classroom",
   level_id |-> section.level_id, group_id |-> group.group_id,
   group_number |-> group.group_number, section_id |-> section.section_id,
   section_number |-> section.section_number]

\* _capacity_check with `>` for `>=`: a room exactly as large as the cohort is refused
CapacityCheckStrict(byType, v) ==
  /\ v.required_room_type \in DOMAIN byType
  /\ \E i \in 1..Len(byType[v.required_room_type]) :
        byType[v.required_room_type][i].capacity > v.student_count

\* _capacity_check: some room of the required type holds the cohort
CapacityCheck(byType, v) ==
  /\ v.required_room_type \in DOMAIN byType
  /\ \E i \in 1..Len(byType[v.required_room_type]) :
        byType[v.required_room_type][i].capacity >= v.student_count

\* Emit with the id counter advanced twice per variable
EmitSkipId(st, v, byType) ==
  IF CapacityCheck(byType, v)
  THEN [counter |-> st.counter + 2, vars |-> Append(st.vars, v), raised |-> <<>>]
  ELSE [counter |-> st.counter + 2, vars |-> st.vars, raised |-> <<v>>]

\* The state of _generate_variables: the id counter, self.variables, and the
\* variable whose capacity check raised (<<>> while none has).
\* Check one freshly built variable: counter += 1, then raise or append.
Emit(st, v, byType) ==
  IF CapacityCheck(byType, v)
  THEN [counter |-> st.counter + 1, vars |-> Append(st.vars, v), raised |-> <<>>]
  ELSE [counter |-> st.counter + 1, vars |-> st.vars, raised |-> <<v>>]

\* the loop over the sections emitting each section's TUTORIAL before its LAB
RECURSIVE GenSectionsTutorialFirst(_, _, _, _, _)
GenSectionsTutorialFirst(course, group, secs, byType, st) ==
  IF secs = <<>> \/ st.raised # <<>> THEN st
  ELSE LET s1 == Emit(st, TutorialVar(st.counter, course, group, Head(secs)), byType)
           s2 == IF s1.raised # <<>> THEN s1
                 ELSE Emit(s1, LabVar(s1.counter, course, group, Head(secs)), byType)
       IN GenSectionsTutorialFirst(course, group, Tail(secs), byType, s2)

\* for section in sections: its LAB, then its TUTORIAL
RECURSIVE GenSections(_, _, _, _, _)
GenSections(course, group, secs, byType, st) ==
  IF secs = <<>> \/ st.raised # <<>> THEN st
  ELSE LET s1 == Emit(st, LabVar(st.counter, course, group, Head(secs)), byType)
           s2 == IF s1.raised # <<>> THEN s1
                 ELSE Emit(s1, TutorialVar(s1.counter, course, group, Head(secs)), byType)
       IN GenSections(course, group, Tail(secs), byType, s2)

\* for group in groups: its LECTURE, then the sections with Section.group_id = group_id
RECURSIVE GenGroups(_, _, _, _, _)
GenGroups(course, gs, allSections, byType, st) ==
  IF gs = <<>> \/ st.raised # <<>> THEN st
  ELSE LET group == Head(gs)
           s1 == Emit(st, LectureVar(st.counter, course, group), byType)
           mine(sec) == sec.group_id = group.group_id
           s2 == IF s1.raised # <<>> THEN s1
                 ELSE GenSections(course, group, SelectSeq(allSections, mine), byType, s1)
       IN GenGroups(course, Tail(gs), allSections, byType, s2)

\* for course in courses: the groups with Group.level_id = course.level_id
RECURSIVE GenCourses(_, _, _, _, _)
GenCourses(cs, allGroups, allSections, byType, st) ==
  IF cs = <<>> \/ st.raised # <<>> THEN st
  ELSE LET course == Head(cs)
           ofLevel(g) == g.level_id = course.level_id
       IN GenCourses(Tail(cs), allGroups, allSections, byType,
                     GenGroups(course, SelectSeq(allGroups, ofLevel), allSections, byType, st))

\* _generate_variables on a scheduler whose self.variables is `have`
GenerateVariablesFrom(have, cs, allGroups, allSections, byType) ==
  GenCourses(cs, allGroups, allSections, byType,
             [counter |-> 0, vars |-> have, raised |-> <<>>])

(* ------------------------------------------------------------------ *)
(* CSPScheduler: domains and the consistency check                    *)
(* ------------------------------------------------------------------ *)
\* valid_blocks taken as range(BLOCKS_PER_DAY) whatever the duration
ValidBlocksAny(duration) == [i \in 1..BLOCKS_PER_DAY |-> i - 1]

\* valid_blocks of _generate_domain
ValidBlocks(duration) ==
  IF duration = 2 THEN VALID_START_BLOCKS ELSE [i \in 1..BLOCKS_PER_DAY |-> i - 1]

\* the start blocks that survive `if end_block > BLOCKS_PER_DAY: continue`
DayBlocks(duration) ==
  LET fits(b) == ~(b + duration > BLOCKS_PER_DAY)
  IN SelectSeq(ValidBlocks(duration), fits)

\* suitable_rooms without the capacity filter: every room of the required type
SuitableRoomsAnyCapacity(byType, v) == Get(byType, v.required_room_type)

\* suitable_rooms of _generate_domain
SuitableRooms(byType, v) ==
  LET holds(room) == room.capacity >= v.student_count
  IN SelectSeq(Get(byType, v.required_room_type), holds)

\* staff_list read from the instructors' dict for every session type
StaffListInstructors(v, instrBy, tasBy) == Get(instrBy, v.course_id)

\* staff_list falling back on the instructors when a lab or tutorial has no qualified TA
StaffListFallback(v, instrBy, tasBy) ==
  IF v.session_type = "LECTURE" \/ Get(tasBy, v.course_id) = <<>>
  THEN Get(instrBy, v.course_id)
  ELSE Get(tasBy, v.course_id)

\* staff_list of _generate_domain: instructors for a LECTURE, TAs otherwise
StaffList(v, instrBy, tasBy) ==
  IF v.session_type = "LECTURE" THEN Get(instrBy, v.course_id) ELSE Get(tasBy, v.course_id)

\* the Assignment built as for staff_type 'instructor' whatever the session type
MakeAssignmentInstructor(v, day, start, room, staff) ==
  [variable |-> v, day |-> day, start_block |-> start,
   end_block |-> start + v.duration_blocks, room_id |-> room.room_id,
   instructor_id |-> staff, ta_id |-> NULL]

\* the Assignment built in the innermost loop of _generate_domain
MakeAssignment(v, day, start, room, staff) ==
  [variable |-> v, day |-> day, start_block |-> start,
   end_block |-> start + v.duration_blocks, room_id |-> room.room_id,
   instructor_id |-> IF v.session_type = "LECTURE" THEN staff ELSE NULL,
   ta_id |-> IF v.session_type = "LECTURE" THEN NULL ELSE staff]

\* _generate_domain: days, then start blocks, then rooms, then staff
GenerateDomain(v, byType, instrBy, tasBy) ==
  LET rs == SuitableRooms(byType, v)
      st == StaffList(v, instrBy, tasBy)
      bs == DayBlocks(v.duration_blocks)
      nR == Len(rs)
      nS == Len(st)
      nB == Len(bs)
  IN IF nS = 0 \/ nR = 0 THEN <<>>
     ELSE [k \in 1..(Len(DAYS) * nB * nR * nS) |->
             MakeAssignment(v,
                            DAYS[((k - 1) \div (nS * nR * nB)) + 1],
                            bs[(((k - 1) \div (nS * nR)) % nB) + 1],
                            rs[(((k - 1) \div nS) % nR) + 1],
                            st[((k - 1) % nS) + 1])]

\* _check_hierarchy without Rule 2 (a group's lecture against its sections' sessions)
CheckHierarchyNoRule2(var1, var2) ==
  /\ ~(/\ var1.session_type = "LECTURE"
       /\ var2.session_type = "LECTURE"
       /\ var1.group_id = var2.group_id)
  /\ ~(/\ Truthy(var1.section_id)
       /\ Truthy(var2.section_id)
       /\ var1.section_id = var2.section_id
       /\ var1.session_type # "LECTURE"
       /\ var2.session_type # "LECTURE")

\* _check_hierarchy: FALSE on a conflict
CheckHierarchy(var1, var2) ==
  /\ ~(/\ var1.session_type = "LECTURE"
       /\ var2.session_type = "LECTURE"
       /\ var1.group_id = var2.group_id)
  /\ ~(/\ var1.session_type = "LECTURE"
       /\ var2.session_type # "LECTURE"
       /\ var2.group_id = var1.group_id)
  /\ ~(/\ var2.session_type = "LECTURE"
       /\ var1.session_type # "LECTURE"
       /\ var1.group_id = var2.group_id)
  /\ ~(/\ Truthy(var1.section_id)
       /\ Truthy(var2.section_id)
       /\ var1.section_id = var2.section_id
       /\ var1.session_type # "LECTURE"
       /\ var2.session_type # "LECTURE")

\* the overlap test of _is_valid
Overlap(a, b) ==
  /\ a.day = b.day
  /\ ~(a.end_block <= b.start_block \/ a.start_block >= b.end_block)

\* the staff test comparing the ids without asking first whether the candidate's is set
StaffConflictUnguarded(a, existing) ==
  \/ a.instructor_id = existing.instructor_id
  \/ a.ta_id = existing.ta_id

\* B. Instructor/TA Conflict of _is_valid
StaffConflict(a, existing) ==
  \/ (Truthy(a.instructor_id) /\ a.instructor_id = existing.instructor_id)
  \/ (Truthy(a.ta_id) /\ a.ta_id = existing.ta_id)

\* the clash test of _is_valid for one existing assignment
ClashFree(a, existing) ==
  Overlap(a, existing) =>
    /\ a.room_id # existing.room_id
    /\ ~StaffConflict(a, existing)
    /\ CheckHierarchy(a.variable, existing.variable)

\* _is_valid against the list self.assignments
IsValid(a, assigned) ==
  /\ \A i \in 1..Len(assigned) : assigned[i].variable.var_id # a.variable.var_id
  /\ \A i \in 1..Len(assigned) : ClashFree(a, assigned[i])

\* positions from `from` on whose candidate the loop of _backtrack would accept
ValidFrom(dom, from, assigned) == {k \in from..Len(dom) : IsValid(dom[k], assigned)}

(* ------------------------------------------------------------------ *)
(* The persisted tables and the session of a request                  *)
(* ------------------------------------------------------------------ *)
\* Assignment.start_time / end_time
StartTime(a) == BLOCK_TIMES[a.start_block + 1][1]

EndTime(a) == BLOCK_TIMES[(a.end_block - 1) + 1][2]

\* hhmm + ":00"
WithSeconds(hhmm) == Append(hhmm, 0)

DurationMinutes(v) == IF v.duration_blocks = 2 THEN 90 ELSE 45

\* what the session of request r reads from table timeslots: committed rows, then its own
VisibleSlots(r) == timeslots \o pendingSlots[r]

\* the rows the filter of _save_schedule matches for assignment a, in table order
MatchingSlots(r, a) ==
  LET same(t) == /\ t.day = a.day
                 /\ t.start_time = WithSeconds(StartTime(a))
                 /\ t.end_time = WithSeconds(EndTime(a))
  IN SelectSeq(VisibleSlots(r), same)

\* the primary key the store gives the next timeslot row
NextSlotId ==
  1 + Max0({timeslots[i].timeslot_id : i \in 1..Len(timeslots)}
           \cup UNION {{pendingSlots[q][i].timeslot_id : i \in 1..Len(pendingSlots[q])} :
                         q \in Requests})

NewSlot(a) ==
  [timeslot_id |-> NextSlotId, day |-> a.day,
   start_time |-> WithSeconds(StartTime(a)), end_time |-> WithSeconds(EndTime(a)),
   duration |-> DurationMinutes(a.variable)]

\* models.Schedule(...) of _save_schedule
ScheduleEntry(a, slotId) ==
  [course_id |-> a.variable.course_id, group_id |-> a.variable.group_id,
   section_id |-> a.variable.section_id, timeslot_id |-> slotId,
   room_id |-> a.room_id, instructor_id |-> a.instructor_id, ta_id |-> a.ta_id,
   session_type |-> a.variable.session_type]

\* the dict _save_schedule appends to result (names stand as ids)
ResultEntry(a) ==
  [type |-> a.variable.session_type, course_id |-> a.variable.course_id,
   duration_blocks |-> a.variable.duration_blocks, day |-> a.day,
   start_time |-> StartTime(a), end_time |-> EndTime(a),
   start_block |-> a.start_block, end_block |-> a.end_block,
   room_id |-> a.room_id,
   instructor_or_ta |-> IF a.instructor_id # NULL THEN a.instructor_id ELSE a.ta_id,
   level_id |-> a.variable.level_id, group_id |-> a.variable.group_id,
   group_number |-> a.variable.group_number, section_id |-> a.variable.section_id,
   section_number |-> a.variable.section_number,
   student_count |-> a.variable.student_count]

\* a schedule persisted by an earlier run, with the timeslot row it references
OldSlots ==
  <<[timeslot_id |-> 1, day |-> "Sunday", start_time |-> <<9, 0, 0>>,
     end_time |-> <<10, 30, 0>>, duration |-> 90]>>

OldSchedule ==
  <<[course_id |-> 1, group_id |-> 1, section_id |-> NULL, timeslot_id |-> 1, room_id |-> 1,
     instructor_id |-> 1, ta_id |-> NULL, session_type |-> "LECTURE"]>>

\* get_schedule: the literal time_to_block table, "HH:MM" keys as <<HH, MM>>
time_to_block ==
  << <<<<9, 0>>, 0>>, <<<<9, 45>>, 1>>, <<<<10, 45>>, 2>>, <<<<11, 30>>, 3>>,
     <<<<12, 30>>, 4>>, <<<<13, 15>>, 5>>, <<<<14, 15>>, 6>>, <<<<15, 0>>, 7>> >>

\* the table with the key of block 2 mistyped as the end of block 1
TimeToBlockGetMistyped(key, default) ==
  LET tbl == [time_to_block EXCEPT ![3] = <<<<10, 30>>, 2>>]
      hits == {i \in 1..Len(tbl) : tbl[i][1] = key}
  IN IF hits = {} THEN default ELSE tbl[CHOOSE i \in hits : TRUE][2]

\* time_to_block.get(key, default)
TimeToBlockGet(key, default) ==
  LET hits == {i \in 1..Len(time_to_block) : time_to_block[i][1] = key}
  IN IF hits = {} THEN default ELSE time_to_block[CHOOSE i \in hits : TRUE][2]

\* s[:5] of a stored "HH:MM:SS" string: the hour and minute fields
FirstFive(s) == SubSeq(s, 1, 2)

\* int(parts[0]) * 60 + int(parts[1]) of s.split(':')
SplitMinutes(s) == s[1] * 60 + s[2]

\* get_schedule: the block data of the response built for a schedule row joined with
\* its timeslot row
BlockInfo(timeslot) ==
  LET duration_mins == SplitMinutes(timeslot.end_time) - SplitMinutes(timeslot.start_time)
  IN [day |-> timeslot.day,
      start_time |-> FirstFive(timeslot.start_time),
      end_time |-> FirstFive(timeslot.end_time),
      start_block |-> TimeToBlockGet(FirstFive(timeslot.start_time), 0),
      duration_blocks |-> IF duration_mins = 90 THEN 2 ELSE 1]

\* entry.timeslot: the timeslot row a schedule row references
EntryTimeslot(entry) ==
  CHOOSE t \in Range(timeslots) : t.timeslot_id = entry.timeslot_id

\* get_schedule without filters: one response per schedule row, in table order
GetSchedule ==
  [i \in 1..Len(schedule) |->
     [session_type |-> schedule[i].session_type] @@ BlockInfo(EntryTimeslot(schedule[i]))]

(* ------------------------------------------------------------------ *)
(* Initial states                                                     *)
(* ------------------------------------------------------------------ *)
\* the variables a snapshot generates, and whether the search over it dead-ends
\* (a variable without qualified staff) within the first MaxDeadEnd + 1 variables
DeadEndsEarly(p) ==
  LET cs == CourseTable(p)
      vs == GenerateVariablesFrom(<<>>, cs, GroupTable(p), SectionTable(p),
                                  LoadRooms(RoomTable(p), EmptyMap)).vars
      noStaff(i) == StaffList(vs[i], LoadInstructors(cs, EmptyMap), LoadTas(cs, EmptyMap)) = <<>>
  IN \A i \in 1..Len(vs) : noStaff(i) => \E j \in 1..(MaxDeadEnd + 1) : j <= i /\ noStaff(j)

InitFrom(params, stores) ==
  /\ \E p \in params :
       /\ DeadEndsEarly(p)
       /\ levels = LevelTable(p)
       /\ rooms = RoomTable(p)
       /\ courses = CourseTable(p)
       /\ groups = GroupTable(p)
       /\ sections = SectionTable(p)
  /\ \E st \in stores :
       /\ schedule = st[1]
       /\ timeslots = st[2]
  /\ pc = [r \in Requests |-> "idle"]
  /\ variables = [r \in Requests |-> <<>>]
  /\ assignments = [r \in Requests |-> <<>>]
  /\ rooms_by_type = [r \in Requests |-> EmptyMap]
  /\ instructors_by_course = [r \in Requests |-> EmptyMap]
  /\ tas_by_course = [r \in Requests |-> EmptyMap]
  /\ frames = [r \in Requests |-> <<>>]
  /\ cursor = [r \in Requests |-> 1]
  /\ result = [r \in Requests |-> <<>>]
  /\ pendingSched = [r \in Requests |-> <<>>]
  /\ pendingSlots = [r \in Requests |-> <<>>]
  /\ errKind = [r \in Requests |-> "None"]
  /\ errVar = [r \in Requests |-> <<>>]
  /\ atStart = [r \in Requests |-> <<>>]
  /\ calls = [r \in Requests |-> 0]
  /\ first = [r \in Requests |-> <<>>]

Init == InitFrom(Families, {<<<<>>, <<>>>>, <<OldSchedule, OldSlots>>})

(* ------------------------------------------------------------------ *)
(* One generate request                                               *)
(* ------------------------------------------------------------------ *)
\* Arrive with the existing schedule deleted and committed on entry, before any phase
ArriveClearing(r) ==
  /\ pc[r] = "idle"
  /\ pc' = [pc EXCEPT ![r] = "load"]
  /\ atStart' = [atStart EXCEPT ![r] = <<schedule, timeslots>>]
  /\ calls' = [calls EXCEPT ![r] = 1]
  /\ schedule' = <<>>
  /\ UNCHANGED <<snapshotVars, timeslots, schedulerVars, sessionVars, errKind, errVar, first>>

\* POST /api/schedule/generate: scheduler = CSPScheduler(db); generate_schedule() is entered
Arrive(r) ==
  /\ pc[r] = "idle"
  /\ pc' = [pc EXCEPT ![r] = "load"]
  /\ atStart' = [atStart EXCEPT ![r] = <<schedule, timeslots>>]
  /\ calls' = [calls EXCEPT ![r] = 1]
  /\ UNCHANGED <<snapshotVars, storeVars, schedulerVars, sessionVars, errKind, errVar, first>>

\* Phase 1: _load_cache
LoadCache(r) ==
  /\ pc[r] = "load"
  /\ rooms_by_type' = [rooms_by_type EXCEPT ![r] = LoadRooms(rooms, @)]
  /\ instructors_by_course' = [instructors_by_course EXCEPT ![r] = LoadInstructors(courses, @)]
  /\ tas_by_course' = [tas_by_course EXCEPT ![r] = LoadTas(courses, @)]
  /\ pc' = [pc EXCEPT ![r] = "generate"]
  /\ UNCHANGED <<snapshotVars, storeVars, variables, assignments, frames, cursor, sessionVars,
                 errKind, errVar, atStart, calls, first>>

\* Phase 2 with self.variables a list shared by the scheduler objects (a class attribute):
\* the variables are appended to what the other request's scheduler has generated
GenerateVariablesShared(r) ==
  /\ pc[r] = "generate"
  /\ LET other == CHOOSE q \in Requests : q # r
         st == GenerateVariablesFrom(variables[other], courses, groups, sections,
                                     rooms_by_type[r])
     IN /\ variables' = [variables EXCEPT ![r] = st.vars]
        /\ IF st.raised = <<>>
           THEN /\ pc' = [pc EXCEPT ![r] = "search"]
                /\ UNCHANGED <<errKind, errVar>>
           ELSE /\ pc' = [pc EXCEPT ![r] = "failed"]
                /\ errKind' = [errKind EXCEPT ![r] = "CapacityShortfall"]
                /\ errVar' = [errVar EXCEPT ![r] = st.raised]
  /\ cursor' = [cursor EXCEPT ![r] = 1]
  /\ UNCHANGED <<snapshotVars, storeVars, assignments, rooms_by_type, instructors_by_course,
                 tas_by_course, frames, sessionVars, atStart, calls, first>>

\* Phase 2: _generate_variables; a failed capacity check raises ScheduleError
GenerateVariables(r) ==
  /\ pc[r] = "generate"
  /\ LET st == GenerateVariablesFrom(variables[r], courses, groups, sections, rooms_by_type[r])
     IN /\ variables' = [variables EXCEPT ![r] = st.vars]
        /\ IF st.raised = <<>>
           THEN /\ pc' = [pc EXCEPT ![r] = "search"]
                /\ UNCHANGED <<errKind, errVar>>
           ELSE /\ pc' = [pc EXCEPT ![r] = "failed"]
                /\ errKind' = [errKind EXCEPT ![r] = "CapacityShortfall"]
                /\ errVar' = [errVar EXCEPT ![r] = st.raised]
  /\ cursor' = [cursor EXCEPT ![r] = 1]
  /\ UNCHANGED <<snapshotVars, storeVars, assignments, rooms_by_type, instructors_by_course,
                 tas_by_course, frames, sessionVars, atStart, calls, first>>

\* the domain of the variable the innermost _backtrack frame works on
FrameDomain(r) ==
  GenerateDomain(variables[r][Len(frames[r]) + 1], rooms_by_type[r],
                 instructors_by_course[r], tas_by_course[r])

\* _backtrack: the loop reaches a candidate that _is_valid accepts, appends it and recurses
BacktrackAssign(r) ==
  /\ pc[r] = "search"
  /\ Len(frames[r]) < Len(variables[r])
  /\ LET dom == FrameDomain(r)
         ok == ValidFrom(dom, cursor[r], assignments[r])
     IN /\ ok # {}
        /\ assignments' = [assignments EXCEPT ![r] = Append(@, dom[Min(ok)])]
        /\ frames' = [frames EXCEPT ![r] = Append(@, Min(ok))]
  /\ cursor' = [cursor EXCEPT ![r] = 1]
  /\ UNCHANGED <<snapshotVars, storeVars, pc, variables, rooms_by_type, instructors_by_course,
                 tas_by_course, sessionVars, errKind, errVar, atStart, calls, first>>

\* _backtrack returning False without the caller's self.assignments.pop()
BacktrackReturnFalseNoPop(r) ==
  /\ pc[r] = "search"
  /\ Len(frames[r]) < Len(variables[r])
  /\ ValidFrom(FrameDomain(r), cursor[r], assignments[r]) = {}
  /\ IF frames[r] = <<>>
     THEN /\ pc' = [pc EXCEPT ![r] = "failed"]
          /\ errKind' = [errKind EXCEPT ![r] = "NoSchedule"]
          /\ UNCHANGED <<frames, cursor>>
     ELSE /\ cursor' = [cursor EXCEPT ![r] = frames[r][Len(frames[r])] + 1]
          /\ frames' = [frames EXCEPT ![r] = SubSeq(@, 1, Len(@) - 1)]
          /\ UNCHANGED <<pc, errKind>>
  /\ UNCHANGED <<snapshotVars, storeVars, variables, assignments, rooms_by_type,
                 instructors_by_course, tas_by_course, sessionVars, errVar, atStart, calls,
                 first>>

\* _backtrack returning False to a caller whose loop takes the popped candidate again
BacktrackReturnFalseRetry(r) ==
  /\ pc[r] = "search"
  /\ Len(frames[r]) < Len(variables[r])
  /\ ValidFrom(FrameDomain(r), cursor[r], assignments[r]) = {}
  /\ IF frames[r] = <<>>
     THEN /\ pc' = [pc EXCEPT ![r] = "failed"]
          /\ errKind' = [errKind EXCEPT ![r] = "NoSchedule"]
          /\ UNCHANGED <<assignments, frames, cursor>>
     ELSE /\ assignments' = [assignments EXCEPT ![r] = SubSeq(@, 1, Len(@) - 1)]
          /\ cursor' = [cursor EXCEPT ![r] = frames[r][Len(frames[r])]]
          /\ frames' = [frames EXCEPT ![r] = SubSeq(@, 1, Len(@) - 1)]
          /\ UNCHANGED <<pc, errKind>>
  /\ UNCHANGED <<snapshotVars, storeVars, variables, rooms_by_type, instructors_by_course,
                 tas_by_course, sessionVars, errVar, atStart, calls, first>>

\* _backtrack: the domain is empty or its loop ends: return False; the caller pops its
\* candidate and its loop goes on, or, at level 0, generate_schedule raises
BacktrackReturnFalse(r) ==
  /\ pc[r] = "search"
  /\ Len(frames[r]) < Len(variables[r])
  /\ ValidFrom(FrameDomain(r), cursor[r], assignments[r]) = {}
  /\ IF frames[r] = <<>>
     THEN /\ pc' = [pc EXCEPT ![r] = "failed"]
          /\ errKind' = [errKind EXCEPT ![r] = "NoSchedule"]
          /\ UNCHANGED <<assignments, frames, cursor>>
     ELSE /\ assignments' = [assignments EXCEPT ![r] = SubSeq(@, 1, Len(@) - 1)]
          /\ cursor' = [cursor EXCEPT ![r] = frames[r][Len(frames[r])] + 1]
          /\ frames' = [frames EXCEPT ![r] = SubSeq(@, 1, Len(@) - 1)]
          /\ UNCHANGED <<pc, errKind>>
  /\ UNCHANGED <<snapshotVars, storeVars, variables, rooms_by_type, instructors_by_course,
                 tas_by_course, sessionVars, errVar, atStart, calls, first>>

\* _backtrack base case: var_index >= len(self.variables); True is returned through all frames
BacktrackSuccess(r) ==
  /\ pc[r] = "search"
  /\ Len(frames[r]) >= Len(variables[r])
  /\ pc' = [pc EXCEPT ![r] = "save_clear"]
  /\ UNCHANGED <<snapshotVars, storeVars, schedulerVars, sessionVars, errKind, errVar, atStart,
                 calls, first>>

\* _save_schedule: query(Schedule).delete(), commit()
SaveClear(r) ==
  /\ pc[r] = "save_clear"
  /\ schedule' = <<>>
  /\ timeslots' = timeslots \o pendingSlots[r]
  /\ pendingSched' = [pendingSched EXCEPT ![r] = <<>>]
  /\ pendingSlots' = [pendingSlots EXCEPT ![r] = <<>>]
  /\ result' = [result EXCEPT ![r] = <<>>]
  /\ pc' = [pc EXCEPT ![r] = "save_loop"]
  /\ UNCHANGED <<snapshotVars, schedulerVars, errKind, errVar, atStart, calls, first>>

\* _save_schedule: one pass of the loop over self.assignments
SaveRow(r) ==
  /\ pc[r] = "save_loop"
  /\ Len(result[r]) < Len(assignments[r])
  /\ LET a == assignments[r][Len(result[r]) + 1]
         found == MatchingSlots(r, a)
         slotId == IF found # <<>> THEN found[1].timeslot_id ELSE NextSlotId
     IN /\ pendingSlots' = [pendingSlots EXCEPT ![r] =
                              IF found # <<>> THEN @ ELSE Append(@, NewSlot(a))]
        /\ pendingSched' = [pendingSched EXCEPT ![r] = Append(@, ScheduleEntry(a, slotId))]
        /\ result' = [result EXCEPT ![r] = Append(@, ResultEntry(a))]
  /\ UNCHANGED <<snapshotVars, storeVars, pc, schedulerVars, errKind, errVar, atStart, calls,
                 first>>

\* _save_schedule: the final commit(); the endpoint returns the result
SaveCommit(r) ==
  /\ pc[r] = "save_loop"
  /\ Len(result[r]) = Len(assignments[r])
  /\ schedule' = schedule \o pendingSched[r]
  /\ timeslots' = timeslots \o pendingSlots[r]
  /\ pendingSched' = [pendingSched EXCEPT ![r] = <<>>]
  /\ pendingSlots' = [pendingSlots EXCEPT ![r] = <<>>]
  /\ pc' = [pc EXCEPT ![r] = "done"]
  /\ UNCHANGED <<snapshotVars, schedulerVars, result, errKind, errVar, atStart, calls, first>>

\* a write of _save_schedule raises: generate_schedule wraps it in ScheduleError, the endpoint
\* answers 400 and the session ends with its uncommitted rows discarded
SaveFail(r) ==
  /\ pc[r] \in {"save_clear", "save_loop"}
  /\ pendingSched' = [pendingSched EXCEPT ![r] = <<>>]
  /\ pendingSlots' = [pendingSlots EXCEPT ![r] = <<>>]
  /\ result' = [result EXCEPT ![r] = <<>>]
  /\ pc' = [pc EXCEPT ![r] = "failed"]
  /\ errKind' = [errKind EXCEPT ![r] = "Unexpected"]
  /\ UNCHANGED <<snapshotVars, storeVars, schedulerVars, errVar, atStart, calls, first>>

Step(r) ==
  \/ Arrive(r)
  \/ LoadCache(r)
  \/ GenerateVariables(r)
  \/ BacktrackAssign(r)
  \/ BacktrackReturnFalse(r)
  \/ BacktrackSuccess(r)
  \/ SaveClear(r)
  \/ SaveRow(r)
  \/ SaveCommit(r)
  \/ SaveFail(r)

\* one request at a time
Next == Step(1)

Spec == Init /\ [][Next]_vars

\* the number of session variables a snapshot generates when every capacity check passes
SessionCount(p) ==
  Len(p.staff) * (Len(p.cfg) + 2 * Cardinality({ij \in (1..Len(p.cfg)) \X (1..MaxSections) :
                                                  ij[2] <= p.cfg[ij[1]]}))

\* the snapshots of at most MaxFairSessions session variables
FamilyFair ==
  {p \in FamilyConflict \cup FamilyCapacity \cup FamilyStaff \cup FamilyScenario :
     SessionCount(p) <= MaxFairSessions}

InitFair == InitFrom(FamilyFair, {<<<<>>, <<>>>>, <<OldSchedule, OldSlots>>})

\* a request that has arrived runs on: the handler is sequential code that never waits
SpecFair == InitFair /\ [][Next]_vars /\ WF_vars(Next)

\* two requests against the same store, as the endpoint admits them
FamilyConc ==
  {p \in FamilyConflict :
     Len(p.cfg) <= 1 /\ p.nClass = 1 /\ p.nLab = 1 /\ Len(p.staff[1].instr) = 1}
  \cup {p \in FamilyStaff :
          p.cfg = <<1>> /\ p.staff = <<[level |-> 1, instr |-> <<1>>, tas |-> <<>>]>>}

InitConc == InitFrom(FamilyConc, {<<<<>>, <<>>>>, <<OldSchedule, OldSlots>>})

NextConc == \E r \in Requests : Step(r)

SpecConc == InitConc /\ [][NextConc]_vars

\* generate_schedule() is called once more on the scheduler object of request r: nothing
\* in generate_schedule or the phases resets self.variables, self.assignments or the
\* caches; the recursion of _backtrack starts anew at index 0
CallAgain(r) ==
  /\ pc[r] \in {"done", "failed"}
  /\ calls[r] = 1
  /\ first' = [first EXCEPT ![r] =
                 <<[ok |-> pc[r] = "done", kind |-> errKind[r], result |-> result[r]]>>]
  /\ calls' = [calls EXCEPT ![r] = 2]
  /\ pc' = [pc EXCEPT ![r] = "load"]
  /\ errKind' = [errKind EXCEPT ![r] = "None"]
  /\ errVar' = [errVar EXCEPT ![r] = <<>>]
  /\ frames' = [frames EXCEPT ![r] = <<>>]
  /\ cursor' = [cursor EXCEPT ![r] = 1]
  /\ result' = [result EXCEPT ![r] = <<>>]
  /\ atStart' = [atStart EXCEPT ![r] = <<schedule, timeslots>>]
  /\ UNCHANGED <<snapshotVars, storeVars, variables, assignments, rooms_by_type,
                 instructors_by_course, tas_by_course, pendingSched, pendingSlots>>

\* one scheduler object whose generate_schedule is called twice
NextReuse == Step(1) \/ CallAgain(1)

SpecReuse == InitConc /\ [][NextReuse]_vars

(* ------------------------------------------------------------------ *)
(* crud: levels, groups and sections                                  *)
(* ------------------------------------------------------------------ *)
\* the primary key the store gives the next row of a table
NextRowId(table, key) == 1 + Max0({table[i][key] : i \in 1..Len(table)})

\* the loops of create_level and of the recreate branch of update_level: the groups of a
\* level and their sections, ids counting on from gBase and sBase
CohortRows(level_id, total_groups, sections_per_group, total_students, gBase, sBase) ==
  LET students_per_group == total_students \div total_groups
      remainder_students == total_students % total_groups
      group_students(g) == students_per_group + (IF g <= remainder_students THEN 1 ELSE 0)
      section_students(g, idx) ==
        (group_students(g) \div sections_per_group)
        + (IF idx < group_students(g) % sections_per_group THEN 1 ELSE 0)
  IN [groups |->
        [g \in 1..total_groups |->
           [group_id |-> gBase + g - 1, level_id |-> level_id, group_number |-> g,
            num_students |-> group_students(g)]],
      sections |->
        [n \in 1..(total_groups * sections_per_group) |->
           LET g == ((n - 1) \div sections_per_group) + 1
               idx == (n - 1) % sections_per_group
           IN [section_id |-> sBase + n - 1, group_id |-> gBase + g - 1,
               level_id |-> level_id, section_number |-> n,
               num_students |-> section_students(g, idx)]]]

\* the divisions of those loops raise ZeroDivisionError
DividesByZero(total_groups, sections_per_group) ==
  total_groups = 0 \/ sections_per_group = 0

\* levels.level_name is unique: "Level <number>" is taken by another row
NameTaken(level_number, except_id) ==
  \E i \in 1..Len(levels) :
    levels[i].level_number = level_number /\ levels[i].level_id # except_id

\* the else branch of update_level: the students are dealt again over the stored groups
\* of the level, in group_number order, and over each group's stored sections, in
\* section_number order
Redistribute(level_id, total_groups, sections_per_group, total_students) ==
  LET students_per_group == total_students \div total_groups
      remainder_students == total_students % total_groups
      mine == {i \in 1..Len(groups) : groups[i].level_id = level_id}
      idx(i) == 1 + Cardinality({j \in mine : groups[j].group_number < groups[i].group_number
                                             \/ (groups[j].group_number = groups[i].group_number
                                                 /\ j < i)})
      group_students(i) == students_per_group + (IF idx(i) <= remainder_students THEN 1 ELSE 0)
      owner(k) == CHOOSE i \in mine : groups[i].group_id = sections[k].group_id
      owned == {k \in 1..Len(sections) : \E i \in mine : groups[i].group_id = sections[k].group_id}
      sec_idx(k) ==
        1 + Cardinality({j \in owned :
                           /\ sections[j].group_id = sections[k].group_id
                           /\ \/ sections[j].section_number < sections[k].section_number
                              \/ (sections[j].section_number = sections[k].section_number
                                  /\ j < k)})
      section_students(k) ==
        (group_students(owner(k)) \div sections_per_group)
        + (IF sec_idx(k) <= group_students(owner(k)) % sections_per_group THEN 1 ELSE 0)
  IN [groups |->
        [i \in 1..Len(groups) |->
           IF i \in mine THEN [groups[i] EXCEPT !.num_students = group_students(i)]
           ELSE groups[i]],
      sections |->
        [k \in 1..Len(sections) |->
           IF k \in owned THEN [sections[k] EXCEPT !.num_students = section_students(k)]
           ELSE sections[k]]]

\* crud.create_level: the level row is committed first, then the groups and sections
CreateLevel ==
  \E level_number \in 1..MaxLevels, num_sections \in 0..MaxCohorts,
     num_groups_per_section \in 0..MaxCohorts, total_students \in 0..MaxStudents :
    /\ ~NameTaken(level_number, NULL)
    /\ LET id == NextRowId(levels, "level_id")
           gBase == NextRowId(groups, "group_id")
           sBase == NextRowId(sections, "section_id")
       IN /\ gBase + num_sections - 1 <= MaxRowId
          /\ sBase + num_sections * num_groups_per_section - 1 <= MaxRowId
          /\ levels' = Append(levels,
                              [level_id |-> id, level_number |-> level_number,
                               num_sections |-> num_sections,
                               num_groups_per_section |-> num_groups_per_section,
                               total_students |-> total_students])
          /\ IF DividesByZero(num_sections, num_groups_per_section)
             THEN UNCHANGED <<groups, sections>>
             ELSE LET rows == CohortRows(id, num_sections, num_groups_per_section,
                                         total_students, gBase, sBase)
                  IN /\ groups' = groups \o rows.groups
                     /\ sections' = sections \o rows.sections
    /\ UNCHANGED <<rooms, courses, storeVars, pc, schedulerVars, sessionVars, errKind, errVar,
                   atStart, calls, first>>

\* crud.update_level on a stored level; a ZeroDivisionError or a taken name ends the
\* request with nothing committed
UpdateLevel ==
  \E n \in 1..Len(levels), level_number \in 1..MaxLevels, num_sections \in 0..MaxCohorts,
     num_groups_per_section \in 0..MaxCohorts, total_students \in 0..MaxStudents :
    LET db_level == levels[n]
        level_id == db_level.level_id
        changed == \/ db_level.num_sections # num_sections
                   \/ db_level.num_groups_per_section # num_groups_per_section
        keptGroups == SelectSeq(groups, LAMBDA g : g.level_id # level_id)
        keptSections == SelectSeq(sections, LAMBDA x : x.level_id # level_id)
        gBase == NextRowId(keptGroups, "group_id")
        sBase == NextRowId(keptSections, "section_id")
        raises == IF changed THEN DividesByZero(num_sections, num_groups_per_section)
                  ELSE \/ num_sections = 0
                       \/ /\ num_groups_per_section = 0
                          /\ \E g \in Range(groups) : g.level_id = level_id
    IN /\ ~NameTaken(level_number, level_id)
       /\ ~raises
       /\ levels' = [levels EXCEPT ![n] =
                       [level_id |-> level_id, level_number |-> level_number,
                        num_sections |-> num_sections,
                        num_groups_per_section |-> num_groups_per_section,
                        total_students |-> total_students]]
       /\ IF changed
          THEN LET rows == CohortRows(level_id, num_sections, num_groups_per_section,
                                      total_students, gBase, sBase)
               IN /\ gBase + num_sections - 1 <= MaxRowId
                  /\ sBase + num_sections * num_groups_per_section - 1 <= MaxRowId
                  /\ groups' = keptGroups \o rows.groups
                  /\ sections' = keptSections \o rows.sections
          ELSE LET rows == Redistribute(level_id, num_sections, num_groups_per_section,
                                        total_students)
               IN /\ groups' = rows.groups
                  /\ sections' = rows.sections
    /\ UNCHANGED <<rooms, courses, storeVars, pc, schedulerVars, sessionVars, errKind, errVar,
                   atStart, calls, first>>

\* crud.delete_section
DeleteSection ==
  \E k \in 1..Len(sections) :
    /\ sections' = SelectSeq(sections, LAMBDA x : x.section_id # sections[k].section_id)
    /\ UNCHANGED <<levels, rooms, courses, groups, storeVars, pc, schedulerVars, sessionVars,
                   errKind, errVar, atStart, calls, first>>

\* crud.delete_group: the ORM cascade of Group.sections deletes the group's sections
DeleteGroup ==
  \E i \in 1..Len(groups) :
    /\ groups' = SelectSeq(groups, LAMBDA g : g.group_id # groups[i].group_id)
    /\ sections' = SelectSeq(sections, LAMBDA x : x.group_id # groups[i].group_id)
    /\ UNCHANGED <<levels, rooms, courses, storeVars, pc, schedulerVars, sessionVars,
                   errKind, errVar, atStart, calls, first>>

\* an empty database
InitCrud ==
  /\ levels = <<>>
  /\ rooms = <<>>
  /\ courses = <<>>
  /\ groups = <<>>
  /\ sections = <<>>
  /\ schedule = <<>>
  /\ timeslots = <<>>
  /\ pc = [r \in Requests |-> "idle"]
  /\ variables = [r \in Requests |-> <<>>]
  /\ assignments = [r \in Requests |-> <<>>]
  /\ rooms_by_type = [r \in Requests |-> EmptyMap]
  /\ instructors_by_course = [r \in Requests |-> EmptyMap]
  /\ tas_by_course = [r \in Requests |-> EmptyMap]
  /\ frames = [r \in Requests |-> <<>>]
  /\ cursor = [r \in Requests |-> 1]
  /\ result = [r \in Requests |-> <<>>]
  /\ pendingSched = [r \in Requests |-> <<>>]
  /\ pendingSlots = [r \in Requests |-> <<>>]
  /\ errKind = [r \in Requests |-> "None"]
  /\ errVar = [r \in Requests |-> <<>>]
  /\ atStart = [r \in Requests |-> <<>>]
  /\ calls = [r \in Requests |-> 0]
  /\ first = [r \in Requests |-> <<>>]

NextCrud == CreateLevel \/ UpdateLevel \/ DeleteSection \/ DeleteGroup

SpecCrud == InitCrud /\ [][NextCrud]_vars

(* ------------------------------------------------------------------ *)
(* Vocabulary of the properties                                       *)
(* ------------------------------------------------------------------ *)
Succeeded(r) == pc[r] = "done"

\* two placements share a day and their block ranges [start, end) meet
TimeClash(a, b) ==
  /\ a.day = b.day
  /\ a.start_block < b.end_block
  /\ b.start_block < a.end_block

IsLecture(v) == v.session_type = "LECTURE"

\* R1-R3: a shared room, a shared instructor, a shared TA
ResourceClash(a, b) ==
  \/ a.room_id = b.room_id
  \/ (a.instructor_id # NULL /\ a.instructor_id = b.instructor_id)
  \/ (a.ta_id # NULL /\ a.ta_id = b.ta_id)

\* H1-H3 on the variables of two placements
HierarchyClash(v, w) ==
  \/ (IsLecture(v) /\ IsLecture(w) /\ v.group_id = w.group_id)
  \/ (IsLecture(v) # IsLecture(w) /\ v.group_id = w.group_id)
  \/ (~IsLecture(v) /\ ~IsLecture(w) /\ v.section_id = w.section_id)

(* ------------------------------------------------------------------ *)
(* Properties                                                         *)
(* ------------------------------------------------------------------ *)
\* C1: in the assignments of a successful run, two distinct assignments that overlap in
\* time never share a room, an instructor or a TA, whatever the identifier values are.
C1_NoResourceClash ==
  \A r \in Requests :
    Succeeded(r) =>
      \A i, j \in 1..Len(assignments[r]) :
        (i # j /\ TimeClash(assignments[r][i], assignments[r][j]))
          => ~ResourceClash(assignments[r][i], assignments[r][j])

\* C2: in the assignments of a successful run, two distinct assignments that overlap in
\* time never violate H1, H2 or H3, whatever the group and section ids are.
C2_NoHierarchyClash ==
  \A r \in Requests :
    Succeeded(r) =>
      \A i, j \in 1..Len(assignments[r]) :
        (i # j /\ TimeClash(assignments[r][i], assignments[r][j]))
          => ~HierarchyClash(assignments[r][i].variable, assignments[r][j].variable)

\* the reference enumeration of the variables: <<c, g, s, kind>> with c, g, s positions in
\* the course, group and section tables; kind 0 the lecture of (c, g) (s = 0), kind 1 the
\* lab and kind 2 the tutorial of (c, section s of group g)
RefKeys ==
  {k \in (1..Len(courses)) \X (1..Len(groups)) \X (0..Len(sections)) \X {0, 1, 2} :
     /\ groups[k[2]].level_id = courses[k[1]].level_id
     /\ (k[4] = 0) = (k[3] = 0)
     /\ k[3] # 0 => sections[k[3]].group_id = groups[k[2]].group_id}

\* k1 comes before k2: course, then group, then the lecture before the sections,
\* then section, then lab before tutorial
Before(k1, k2) ==
  \/ k1[1] < k2[1]
  \/ (k1[1] = k2[1] /\ k1[2] < k2[2])
  \/ (k1[1] = k2[1] /\ k1[2] = k2[2] /\ k1[3] < k2[3])
  \/ (k1[1] = k2[1] /\ k1[2] = k2[2] /\ k1[3] = k2[3] /\ k1[4] < k2[4])

RefRank(k) == Cardinality({j \in RefKeys : Before(j, k)})

RefType(k) == IF k[4] = 0 THEN "LECTURE" ELSE IF k[4] = 1 THEN "LAB" ELSE "TUTORIAL"

RefStudents(k) == IF k[4] = 0 THEN groups[k[2]].num_students ELSE sections[k[3]].num_students

RefRoomType(k) ==
  IF k[4] = 1 THEN "Lab"
  ELSE IF k[4] = 2 THEN "Classroom"
  ELSE IF groups[k[2]].num_students > 100 THEN "Theater" ELSE "Classroom"

\* some room of the required type holds the cohort
RefFits(k) ==
  \E i \in 1..Len(rooms) :
    rooms[i].room_type = RefRoomType(k) /\ rooms[i].capacity >= RefStudents(k)

\* variable v is the one the reference enumeration emits for key k
IsRefVar(v, k) ==
  /\ v.var_id = RefRank(k)
  /\ v.session_type = RefType(k)
  /\ v.course_id = courses[k[1]].course_id
  /\ v.group_id = groups[k[2]].group_id
  /\ v.section_id = (IF k[3] = 0 THEN NULL ELSE sections[k[3]].section_id)
  /\ v.student_count = RefStudents(k)

PastGeneration(r) == pc[r] \in {"search", "save_clear", "save_loop", "done", "failed"}

\* C3: on success the returned list has exactly one record per generated variable, the
\* k-th record being the placement of the variable with var_id k.
C3_OnePerVariableInOrder ==
  \A r \in Requests :
    Succeeded(r) =>
      /\ Len(result[r]) = Len(variables[r])
      /\ Len(result[r]) = Cardinality(RefKeys)
      /\ \A k \in 1..Len(result[r]) :
           /\ variables[r][k].var_id = k - 1
           /\ assignments[r][k].variable = variables[r][k]
           /\ result[r][k].type = variables[r][k].session_type
           /\ result[r][k].course_id = variables[r][k].course_id
           /\ result[r][k].group_id = variables[r][k].group_id
           /\ result[r][k].section_id = variables[r][k].section_id
           /\ result[r][k].day = assignments[r][k].day
           /\ result[r][k].start_block = assignments[r][k].start_block
           /\ result[r][k].room_id = assignments[r][k].room_id

C3_Witness == Succeeded(1) /\ Len(result[1]) >= 5

\* the course row of the snapshot with this id
CourseRow(id) == CHOOSE c \in Range(courses) : c.course_id = id

\* the candidates of variable v read off the snapshot: a legal (day, start block), a room
\* of the required type that holds the cohort, a member of staff qualified for the course
RefDomain(v) ==
  {[variable |-> v, day |-> d, start_block |-> b, end_block |-> b + v.duration_blocks,
    room_id |-> rm.room_id,
    instructor_id |-> IF IsLecture(v) THEN st ELSE NULL,
    ta_id |-> IF IsLecture(v) THEN NULL ELSE st] :
     d \in Range(DAYS),
     b \in {x \in 0..7 : x + v.duration_blocks <= 8 /\ (v.duration_blocks = 2 => x % 2 = 0)},
     rm \in {x \in Range(rooms) :
               x.room_type = v.required_room_type /\ x.capacity >= v.student_count},
     st \in IF IsLecture(v) THEN Range(CourseRow(v.course_id).instructors)
                            ELSE Range(CourseRow(v.course_id).tas)}

\* two placements violate a hard constraint
Conflict(a, b) ==
  TimeClash(a, b) /\ (ResourceClash(a, b) \/ HierarchyClash(a.variable, b.variable))

\* the placements `placed` extend to a conflict-free placement of the variables vs too
RECURSIVE CanComplete(_, _)
CanComplete(placed, vs) ==
  IF vs = <<>> THEN TRUE
  ELSE \E c \in RefDomain(Head(vs)) :
         /\ \A i \in 1..Len(placed) : ~Conflict(c, placed[i])
         /\ CanComplete(Append(placed, c), Tail(vs))

\* the blocks of the variables vs[i..] that only staff member st (an instructor if
\* lecture, a TA otherwise) is qualified to take
RECURSIVE ForcedBlocks(_, _, _, _)
ForcedBlocks(vs, i, st, lecture) ==
  IF i > Len(vs) THEN 0
  ELSE (IF /\ IsLecture(vs[i]) = lecture
           /\ {st} = (IF lecture THEN Range(CourseRow(vs[i].course_id).instructors)
                                ELSE Range(CourseRow(vs[i].course_id).tas))
        THEN vs[i].duration_blocks ELSE 0)
       + ForcedBlocks(vs, i + 1, st, lecture)

\* some member of staff is the only choice for more blocks than a week has: no
\* conflict-free placement can exist
Overbooked(vs) ==
  \E lecture \in BOOLEAN :
    \E c \in Range(courses) :
      \E st \in (IF lecture THEN Range(c.instructors) ELSE Range(c.tas)) :
        ForcedBlocks(vs, 1, st, lecture) > Len(DAYS) * BLOCKS_PER_DAY

Feasible(r) == ~Overbooked(variables[r]) /\ CanComplete(<<>>, variables[r])

\* C4: the search ends with the NoSchedule failure only when no complete conflict-free
\* assignment (one domain candidate per variable) exists, and it returns True only when
\* one exists.
C4_NoScheduleIffInfeasible ==
  \A r \in Requests :
    /\ (pc[r] = "failed" /\ errKind[r] = "NoSchedule") => ~Feasible(r)
    /\ pc[r] = "save_clear" => Feasible(r)

\* C5: when some variable fails the capacity check, the run ends with the capacity error
\* citing the first such variable of the enumeration, no search frame was ever opened and
\* no assignment exists; a run gets past generation otherwise only.
C5_CapacityFailFast ==
  \A r \in Requests :
    PastGeneration(r) =>
      IF \E k \in RefKeys : ~RefFits(k)
      THEN /\ pc[r] = "failed"
           /\ errKind[r] = "CapacityShortfall"
           /\ Len(errVar[r]) = 1
           /\ \E k \in RefKeys :
                /\ ~RefFits(k)
                /\ \A j \in RefKeys : Before(j, k) => RefFits(j)
                /\ IsRefVar(errVar[r][1], k)
           /\ assignments[r] = <<>>
           /\ frames[r] = <<>>
           /\ result[r] = <<>>
           /\ pendingSched[r] = <<>>
      ELSE errKind[r] # "CapacityShortfall"

C5_Witness ==
  /\ errKind[1] = "CapacityShortfall"
  /\ errVar[1][1].session_type = "TUTORIAL"
  /\ errVar[1][1].var_id >= 2

\* C6: when a write of the emission fails, the persisted schedule and timeslot tables are
\* exactly as they were before the run.
C6_EmissionAtomic ==
  \A r \in Requests :
    (pc[r] = "failed" /\ errKind[r] = "Unexpected") => <<schedule, timeslots>> = atStart[r]

\* C7: a run that ends with a capacity shortfall or with search exhaustion has persisted
\* nothing: the schedule and timeslot tables are as they were before the run and the
\* session holds no uncommitted row.
C7_InfeasibleLeavesStore ==
  \A r \in Requests :
    (pc[r] = "failed" /\ errKind[r] \in {"CapacityShortfall", "NoSchedule"}) =>
      /\ <<schedule, timeslots>> = atStart[r]
      /\ pendingSched[r] = <<>>
      /\ pendingSlots[r] = <<>>

C7_Witness ==
  /\ pc[1] = "failed"
  /\ errKind[1] = "NoSchedule"
  /\ atStart[1] = <<OldSchedule, OldSlots>>

\* C8: whatever the interleaving of two generate requests, once both have succeeded the
\* persisted schedule is the output of a single run: one row per variable, and no
\* (day, start, end) occurs twice in the timeslot table.
C8_RunsSerialized ==
  (\A r \in Requests : Succeeded(r)) =>
    /\ Len(schedule) = Len(variables[1])
    /\ \A i, j \in 1..Len(timeslots) :
         (/\ timeslots[i].day = timeslots[j].day
          /\ timeslots[i].start_time = timeslots[j].start_time
          /\ timeslots[i].end_time = timeslots[j].end_time) => i = j

\* C9: every assignment ever on the stack of a scheduler is role-pure: a LECTURE has an
\* instructor and no TA, a LAB or TUTORIAL has a TA and no instructor.
C9_RolePurity ==
  \A r \in Requests :
    \A i \in 1..Len(assignments[r]) :
      LET a == assignments[r][i]
      IN IF IsLecture(a.variable)
         THEN a.instructor_id # NULL /\ a.ta_id = NULL
         ELSE a.ta_id # NULL /\ a.instructor_id = NULL

C9_Witness ==
  /\ Succeeded(1)
  /\ \E i \in 1..Len(assignments[1]) : assignments[1][i].variable.session_type = "LAB"
  /\ \E i \in 1..Len(assignments[1]) : assignments[1][i].variable.session_type = "LECTURE"

\* C10: in every assignment of a result the instructor of a LECTURE is qualified for the
\* assignment's course and the TA of a LAB or TUTORIAL is qualified for it.
C10_Qualified ==
  \A r \in Requests :
    Succeeded(r) =>
      \A i \in 1..Len(assignments[r]) :
        LET a == assignments[r][i]
        IN IF IsLecture(a.variable)
           THEN a.instructor_id \in Range(CourseRow(a.variable.course_id).instructors)
           ELSE a.ta_id \in Range(CourseRow(a.variable.course_id).tas)

C10_Witness ==
  /\ Succeeded(1)
  /\ Len(courses) = 2
  /\ courses[1].instructors # courses[2].instructors
  /\ courses[1].tas # courses[1].instructors
  /\ \E i \in 1..Len(assignments[1]) : assignments[1][i].variable.course_id = 2
  /\ \E i \in 1..Len(assignments[1]) : assignments[1][i].variable.session_type = "LAB"

\* the snapshot is the one built from p
IsSnapshot(p) ==
  /\ rooms = RoomTable(p)
  /\ courses = CourseTable(p)
  /\ groups = GroupTable(p)
  /\ sections = SectionTable(p)

\* the room row of the snapshot with this id
RoomRow(id) == CHOOSE room \in Range(rooms) : room.room_id = id

\* C11: in every assignment on the stack, and so in every assignment of a result, the
\* room is of the variable's required room type and holds the variable's student count.
C11_CapacityAndRoomType ==
  \A r \in Requests :
    \A i \in 1..Len(assignments[r]) :
      LET a == assignments[r][i]
      IN /\ \E room \in Range(rooms) : room.room_id = a.room_id
         /\ RoomRow(a.room_id).room_type = a.variable.required_room_type
         /\ RoomRow(a.room_id).capacity >= a.variable.student_count

C11_Witness ==
  /\ Succeeded(1)
  /\ IsSnapshot(MixedRooms)
  /\ Len(assignments[1]) = 3
  /\ assignments[1][1].room_id = 3
  /\ assignments[1][2].room_id = 4

\* a placement on legal blocks
LegalBlocks(a) ==
  /\ a.start_block \in 0..7
  /\ a.end_block = a.start_block + a.variable.duration_blocks
  /\ a.end_block <= 8
  /\ a.variable.duration_blocks = 2 => a.start_block \in {0, 2, 4, 6}

\* request r is in a _backtrack frame that has a variable to place
InFrame(r) == pc[r] = "search" /\ Len(frames[r]) < Len(variables[r])

\* C12: every candidate of every domain the search builds, and every assignment on the
\* stack, starts in 0..7, ends at start + duration <= 8 and, when it lasts two blocks,
\* starts at 0, 2, 4 or 6; the domain of a one-block tutorial offers every start block
\* 0..7 on every day.
C12_BlockLegality ==
  \A r \in Requests :
    /\ \A i \in 1..Len(assignments[r]) : LegalBlocks(assignments[r][i])
    /\ InFrame(r) =>
         LET dom == FrameDomain(r)
             v == variables[r][Len(frames[r]) + 1]
         IN /\ \A k \in 1..Len(dom) : LegalBlocks(dom[k]) /\ dom[k].variable = v
            /\ (v.duration_blocks = 1 /\ dom # <<>>) =>
                 \A d \in Range(DAYS) : \A b \in 0..7 :
                   \E k \in 1..Len(dom) : dom[k].day = d /\ dom[k].start_block = b

C12_Witness ==
  /\ InFrame(1)
  /\ Len(frames[1]) = 2
  /\ variables[1][3].session_type = "TUTORIAL"
  /\ variables[1][3].duration_blocks = 1
  /\ \E k \in 1..Len(FrameDomain(1)) :
        FrameDomain(1)[k].start_block = 7 /\ FrameDomain(1)[k].day = "Thursday"

\* the run of request r is over and no write to the store failed in it
Finished(r) == pc[r] \in {"done", "failed"} /\ errKind[r] # "Unexpected"

C14_NoStateAcrossRuns ==
  \A r \in Requests :
    (calls[r] = 2 /\ Finished(r) /\ first[r][1].kind # "Unexpected") =>
      /\ (pc[r] = "done") = first[r][1].ok
      /\ errKind[r] = first[r][1].kind
      /\ result[r] = first[r][1].result

\* position of x in the list s
PosIn(s, x) == CHOOSE i \in 1..Len(s) : s[i] = x

\* where candidate a stands in the domain order of its variable: day, start block,
\* room in snapshot order, staff in snapshot order
OrderKey(a) ==
  <<PosIn(DAYS, a.day), a.start_block,
    PosIn([i \in 1..Len(rooms) |-> rooms[i].room_id], a.room_id),
    IF IsLecture(a.variable)
    THEN PosIn(CourseRow(a.variable.course_id).instructors, a.instructor_id)
    ELSE PosIn(CourseRow(a.variable.course_id).tas, a.ta_id)>>

\* lexicographic order on keys
KeyLess(k1, k2) ==
  \E i \in 1..4 : k1[i] < k2[i] /\ \A j \in 1..(i - 1) : k1[j] = k2[j]

\* C15: the assignment list of a successful run is complete and conflict-free, and no
\* complete conflict-free assignment comes before it: at every variable, each candidate
\* earlier in the domain order than the one returned either conflicts with the placements
\* of the earlier variables or cannot be completed for the later ones.
C15_FirstInSearchOrder ==
  \A r \in Requests :
    Succeeded(r) =>
      LET A == assignments[r]
          vs == variables[r]
      IN /\ Len(A) = Len(vs)
         /\ \A k \in 1..Len(A) : A[k] \in RefDomain(vs[k])
         /\ \A i, j \in 1..Len(A) : i < j => ~Conflict(A[i], A[j])
         /\ \A k \in 1..Len(A) :
              \A c \in RefDomain(vs[k]) :
                KeyLess(OrderKey(c), OrderKey(A[k])) =>
                  \/ \E i \in 1..(k - 1) : Conflict(c, A[i])
                  \/ ~CanComplete(Append(SubSeq(A, 1, k - 1), c), SubSeq(vs, k + 1, Len(vs)))

\* record e of a result places a session of this type on this day and start block, in
\* this room, with this teacher
Places(e, type, day, start, room, teacher) ==
  /\ e.type = type
  /\ e.day = day
  /\ e.start_block = start
  /\ e.end_block = start + e.duration_blocks
  /\ e.room_id = room
  /\ e.instructor_or_ta = teacher

\* C16: on the minimal feasible snapshot the run succeeds with exactly three assignments:
\* the LECTURE on Sunday blocks 0-1 in R1 by I1, the LAB on Sunday blocks 2-3 in R2 by T1,
\* the TUTORIAL on Sunday blocks 4-5 in R1 by T1.
C16_MinimalFeasible ==
  \A r \in Requests :
    (IsSnapshot(MinimalFeasible) /\ Finished(r)) =>
      /\ Succeeded(r)
      /\ Len(result[r]) = 3
      /\ Places(result[r][1], "LECTURE", "Sunday", 0, 1, 1)
      /\ Places(result[r][2], "LAB", "Sunday", 2, 2, 1)
      /\ Places(result[r][3], "TUTORIAL", "Sunday", 4, 1, 1)
      /\ \A k \in 1..3 : result[r][k].duration_blocks = 2
      /\ assignments[r][1].instructor_id = 1 /\ assignments[r][1].ta_id = NULL
      /\ assignments[r][2].ta_id = 1 /\ assignments[r][2].instructor_id = NULL
      /\ assignments[r][3].ta_id = 1 /\ assignments[r][3].instructor_id = NULL

C16_Witness == IsSnapshot(MinimalFeasible) /\ Succeeded(1) /\ Len(result[1]) = 3

\* on the small-tutorial snapshot: the TUTORIAL variable (the third) lasts one block and,
\* when the search reaches it, its domain offers every start block 0..7 on every day
SmallTutorialDomain(r) ==
  /\ PastGeneration(r) =>
       /\ Len(variables[r]) = 3
       /\ variables[r][3].session_type = "TUTORIAL"
       /\ variables[r][3].duration_blocks = 1
  /\ (InFrame(r) /\ Len(frames[r]) = 2) =>
       \A d \in Range(DAYS) : \A b \in 0..7 :
         \E k \in 1..Len(FrameDomain(r)) :
           FrameDomain(r)[k].day = d /\ FrameDomain(r)[k].start_block = b

\* C17 as stated: on the small-tutorial snapshot the tutorial lasts one block, may start
\* at any of 0..7, and is placed on Sunday at start block 0.
C17_TutorialAtBlockZero ==
  \A r \in Requests :
    IsSnapshot(SmallTutorial) =>
      /\ SmallTutorialDomain(r)
      /\ Finished(r) =>
           /\ Succeeded(r)
           /\ Len(result[r]) = 3
           /\ result[r][3].type = "TUTORIAL"
           /\ result[r][3].day = "Sunday"
           /\ result[r][3].start_block = 0

\* C17: on the small-tutorial snapshot the tutorial lasts one block, may start at any of
\* 0..7, and is placed on Sunday at start block 4, the first block after the lecture of
\* its group (Sunday blocks 0-1) and the lab of its section (Sunday blocks 2-3).
C17_TutorialAfterLectureAndLab ==
  \A r \in Requests :
    IsSnapshot(SmallTutorial) =>
      /\ SmallTutorialDomain(r)
      /\ Finished(r) =>
           /\ Succeeded(r)
           /\ Len(result[r]) = 3
           /\ Places(result[r][1], "LECTURE", "Sunday", 0, 1, 1)
           /\ Places(result[r][2], "LAB", "Sunday", 2, 2, 1)
           /\ Places(result[r][3], "TUTORIAL", "Sunday", 4, 1, 1)
           /\ result[r][3].duration_blocks = 1
           /\ result[r][3].end_block = 5

C17_Witness ==
  /\ IsSnapshot(SmallTutorial)
  /\ Succeeded(1)
  /\ result[1][3].type = "TUTORIAL"
  /\ result[1][3].duration_blocks = 1

\* generation is over for request r
Generated(r) == pc[r] \notin {"idle", "load", "generate"}

\* C18 as stated: on the snapshot with a group of 150 the LECTURE requires a Theater and
\* passes the capacity check, the LAB passes with R3, and generation aborts with the
\* capacity error raised at the TUTORIAL variable.
C18_ShortfallAtTutorial ==
  \A r \in Requests :
    (IsSnapshot(RoomForcedBySize) /\ Generated(r)) =>
      /\ pc[r] = "failed"
      /\ errKind[r] = "CapacityShortfall"
      /\ Len(variables[r]) = 2
      /\ variables[r][1].session_type = "LECTURE"
      /\ variables[r][1].required_room_type = "Theater"
      /\ variables[r][2].session_type = "LAB"
      /\ Len(errVar[r]) = 1
      /\ errVar[r][1].session_type = "TUTORIAL"

\* C18: on the snapshot with a group of 150 (its section 150 too) the LECTURE requires a
\* Theater and passes the capacity check, only R2 qualifying; generation then aborts with
\* the capacity error raised at the LAB variable, which no Lab holds; no later variable
\* is built and no search is started.
C18_ShortfallAtLab ==
  \A r \in Requests :
    (IsSnapshot(RoomForcedBySize) /\ Generated(r)) =>
      /\ pc[r] = "failed"
      /\ errKind[r] = "CapacityShortfall"
      /\ Len(variables[r]) = 1
      /\ variables[r][1].session_type = "LECTURE"
      /\ variables[r][1].required_room_type = "Theater"
      /\ variables[r][1].student_count = 150
      /\ SuitableRooms(rooms_by_type[r], variables[r][1]) = <<Room(2, "Theater", 200)>>
      /\ Len(errVar[r]) = 1
      /\ errVar[r][1].session_type = "LAB"
      /\ errVar[r][1].var_id = 1
      /\ errVar[r][1].student_count = 150
      /\ assignments[r] = <<>>
      /\ frames[r] = <<>>

C18_Witness ==
  /\ IsSnapshot(RoomForcedBySize)
  /\ pc[1] = "failed"
  /\ errKind[1] = "CapacityShortfall"

\* v is a LAB variable of a course with a qualified instructor and no qualified TA
LabWithoutTa(v) ==
  /\ v.session_type = "LAB"
  /\ CourseRow(v.course_id).instructors # <<>>
  /\ CourseRow(v.course_id).tas = <<>>

\* C19: in a run that has generated a LAB variable for a course with an instructor and
\* no TA and has gone on to the search, the search never succeeds and never pushes an
\* assignment for that lab; the run ends with the NoSchedule failure, raised with the
\* stack empty once the loop over the first variable's domain has passed its last
\* candidate.
C19_NoTaNoSchedule ==
  \A r \in Requests :
    (/\ Generated(r)
     /\ errKind[r] # "CapacityShortfall"
     /\ \E i \in 1..Len(variables[r]) : LabWithoutTa(variables[r][i])) =>
      /\ pc[r] \in {"search", "failed"}
      /\ \A i \in 1..Len(assignments[r]) : ~LabWithoutTa(assignments[r][i].variable)
      /\ pc[r] = "failed" =>
           /\ errKind[r] = "NoSchedule"
           /\ assignments[r] = <<>>
           /\ frames[r] = <<>>
           /\ result[r] = <<>>
           /\ cursor[r] = 1 + Len(GenerateDomain(variables[r][1], rooms_by_type[r],
                                                 instructors_by_course[r], tas_by_course[r]))

C19_Witness ==
  /\ pc[1] = "failed"
  /\ errKind[1] = "NoSchedule"
  /\ Len(variables[1]) >= 2
  /\ LabWithoutTa(variables[1][2])
  /\ cursor[1] > 20

\* the snapshot breaks a stated invariant: a course whose level has no group, or a group
\* without sections
InvalidSnapshot ==
  \/ \E c \in Range(courses) : \A g \in Range(groups) : g.level_id # c.level_id
  \/ \E g \in Range(groups) : \A s \in Range(sections) : s.group_id # g.group_id

\* C20: on a snapshot that breaks a stated invariant the run never reaches the save
\* phase or Success, and when it is over it has failed with the InvalidInput error.
C20_InvalidInputRejected ==
  \A r \in Requests :
    InvalidSnapshot =>
      /\ pc[r] \notin {"save_clear", "save_loop", "done"}
      /\ pc[r] = "failed" => errKind[r] = "InvalidInput"

\* a and e share no teacher
DifferentStaff(a, e) ==
  /\ ~(a.instructor_id # NULL /\ a.instructor_id = e.instructor_id)
  /\ ~(a.ta_id # NULL /\ a.ta_id = e.ta_id)

\* (a) two LAB/TUTORIAL sessions of different sections, (b) two LECTUREs of different groups
MayOverlap(v, w) ==
  \/ (~IsLecture(v) /\ ~IsLecture(w) /\ v.section_id # w.section_id)
  \/ (IsLecture(v) /\ IsLecture(w) /\ v.group_id # w.group_id)

\* C21: in every frame of the search, a candidate that overlaps in time with a placed
\* assignment, in another room and with other staff, passes the clash test against it
\* when the two are LAB/TUTORIAL sessions of different sections or LECTUREs of different
\* groups; a candidate for which this holds against every placed assignment it overlaps
\* is accepted by _is_valid.
C21_NotOverConstrained ==
  \A r \in Requests :
    InFrame(r) =>
      LET dom == FrameDomain(r)
          ok(c, e) == /\ c.room_id # e.room_id
                      /\ DifferentStaff(c, e)
                      /\ MayOverlap(c.variable, e.variable)
      IN \A k \in 1..Len(dom) :
           /\ \A i \in 1..Len(assignments[r]) :
                (TimeClash(dom[k], assignments[r][i]) /\ ok(dom[k], assignments[r][i]))
                  => ClashFree(dom[k], assignments[r][i])
           /\ (\A i \in 1..Len(assignments[r]) :
                 TimeClash(dom[k], assignments[r][i]) => ok(dom[k], assignments[r][i]))
                => IsValid(dom[k], assignments[r])

\* two labs of different sections of one group, and two lectures of different groups of
\* one course, placed on overlapping blocks
C21_Witness ==
  /\ Succeeded(1)
  /\ \E i, j \in 1..Len(assignments[1]) :
       /\ i < j
       /\ TimeClash(assignments[1][i], assignments[1][j])
       /\ assignments[1][i].variable.session_type = "LAB"
       /\ assignments[1][j].variable.session_type = "LAB"
       /\ assignments[1][i].variable.group_id = assignments[1][j].variable.group_id
       /\ assignments[1][i].ta_id = 1
       /\ assignments[1][j].ta_id = 2
  /\ \E i, j \in 1..Len(assignments[1]) :
       /\ i < j
       /\ TimeClash(assignments[1][i], assignments[1][j])
       /\ IsLecture(assignments[1][i].variable)
       /\ IsLecture(assignments[1][j].variable)
       /\ assignments[1][i].variable.course_id = assignments[1][j].variable.course_id
       /\ assignments[1][i].instructor_id = 1
       /\ assignments[1][j].instructor_id = 2

\* key k1 comes before key k2 in the stated enumeration: courses in snapshot order, the
\* groups of the level by ascending group-number, the lecture of a group before its
\* sections, the sections by ascending section-number, the lab before the tutorial
NumberBefore(k1, k2) ==
  LET gn(k) == groups[k[2]].group_number
      sn(k) == IF k[3] = 0 THEN 0 ELSE sections[k[3]].section_number
  IN \/ k1[1] < k2[1]
     \/ (k1[1] = k2[1] /\ gn(k1) < gn(k2))
     \/ (k1[1] = k2[1] /\ gn(k1) = gn(k2) /\ sn(k1) < sn(k2))
     \/ (k1[1] = k2[1] /\ gn(k1) = gn(k2) /\ sn(k1) = sn(k2) /\ k1[4] < k2[4])

NumberRank(k) == Cardinality({j \in RefKeys : NumberBefore(j, k)})

GroupRow(id) == CHOOSE g \in Range(groups) : g.group_id = id

SectionRow(id) == CHOOSE s \in Range(sections) : s.section_id = id

\* C23: every generated variable has the derived attributes of its type: a LECTURE needs
\* a Theater iff its group has more than 100 students (a Classroom at exactly 100), lasts
\* 2 blocks and counts the group's students; a LAB needs a Lab, lasts 2 blocks and counts
\* the section's students; a TUTORIAL needs a Classroom, lasts 1 block iff its section
\* has at most 15 students (2 blocks at 16) and counts the section's students.
C23_DerivedAttributes ==
  \A r \in Requests :
    \A i \in 1..Len(variables[r]) :
      LET v == variables[r][i]
      IN /\ v.session_type \in {"LECTURE", "LAB", "TUTORIAL"}
         /\ v.session_type = "LECTURE" =>
              /\ (v.required_room_type = "Theater") = (GroupRow(v.group_id).num_students > 100)
              /\ v.required_room_type \in {"Theater", "Classroom"}
              /\ v.duration_blocks = 2
              /\ v.student_count = GroupRow(v.group_id).num_students
         /\ v.session_type = "LAB" =>
              /\ v.required_room_type = "Lab"
              /\ v.duration_blocks = 2
              /\ v.student_count = SectionRow(v.section_id).num_students
         /\ v.session_type = "TUTORIAL" =>
              /\ v.required_room_type = "Classroom"
              /\ (v.duration_blocks = 1) = (SectionRow(v.section_id).num_students <= 15)
              /\ v.duration_blocks \in {1, 2}
              /\ v.student_count = SectionRow(v.section_id).num_students

\* a group of 101 (Theater) beside a section of exactly 15 (one block)
C23_Witness ==
  /\ Generated(1)
  /\ Len(variables[1]) >= 3
  /\ variables[1][1].student_count = 101
  /\ variables[1][1].required_room_type = "Theater"
  /\ variables[1][3].session_type = "TUTORIAL"
  /\ variables[1][3].student_count = 15
  /\ variables[1][3].duration_blocks = 1

\* the search of request r has reported success
SearchSucceeded(r) == pc[r] \in {"save_clear", "save_loop", "done"}

\* the stack of request r at level Len(frames[r]): one entry per open frame, the k-th
\* an assignment of variables[k]
StackAtLevel(r) ==
  /\ Len(assignments[r]) = Len(frames[r])
  /\ Len(assignments[r]) <= Len(variables[r])
  /\ \A k \in 1..Len(assignments[r]) : assignments[r][k].variable = variables[r][k]
  /\ \A j, k \in 1..Len(assignments[r]) :
       assignments[r][j].variable.var_id = assignments[r][k].variable.var_id => j = k

\* C24: while _backtrack runs at level i the assignment list has exactly i entries, the
\* k-th an assignment of variables[k] (never more than N, no variable twice); when the
\* search fails at level 0 the list is empty; once success is reported no entry is popped
\* or altered.
C24_StackDiscipline ==
  /\ [](\A r \in Requests :
          /\ pc[r] = "search" => StackAtLevel(r)
          /\ (pc[r] = "failed" /\ errKind[r] = "NoSchedule") => assignments[r] = <<>>
          /\ SearchSucceeded(r) =>
               StackAtLevel(r) /\ Len(assignments[r]) = Len(variables[r]))
  /\ [][\A r \in Requests : SearchSucceeded(r) => assignments'[r] = assignments[r]]_vars

\* a candidate has been popped: the search is back one level, its loop past that candidate
C24_Witness ==
  /\ pc[1] = "search"
  /\ cursor[1] > 1
  /\ Len(assignments[1]) = Len(frames[1])
  /\ Len(variables[1]) >= 2

\* the run of request r has ended: the endpoint has answered
Terminal(r) == pc[r] \in {"done", "failed"}

\* lexicographic order on sequences of integers, a proper prefix being smaller
LexLess(s, t) ==
  \/ Len(s) < Len(t) /\ SubSeq(t, 1, Len(s)) = s
  \/ \E i \in 1..Len(s) :
       /\ i <= Len(t)
       /\ s[i] < t[i]
       /\ SubSeq(s, 1, i - 1) = SubSeq(t, 1, i - 1)

\* the position of the search of request r: the domain index chosen in each open frame,
\* then the index the loop of the innermost frame continues from
SearchPosition(r) == Append(frames[r], cursor[r])

\* the partial assignment of request r is the one its frames' indices select: entry k is
\* element frames[k] of the domain of variables[k], whose elements are pairwise distinct
IndexedByFrames(r) ==
  \A k \in 1..Len(frames[r]) :
    LET dom == GenerateDomain(variables[r][k], rooms_by_type[r], instructors_by_course[r],
                              tas_by_course[r])
    IN /\ frames[r][k] \in 1..Len(dom)
       /\ assignments[r][k] = dom[frames[r][k]]
       /\ \A i, j \in 1..Len(dom) : dom[i] = dom[j] => i = j

\* C25: a run that has started reaches a terminal outcome, Success with one assignment per
\* variable or a reported failure, and stays there; each step of the backtracking search
\* moves to a lexicographically greater position, so no partial assignment is built twice
\* and the search cannot loop.
C25_Termination ==
  /\ \A r \in Requests : (pc[r] # "idle") ~> Terminal(r)
  /\ [](\A r \in Requests :
          /\ pc[r] = "done" =>
               Len(assignments[r]) = Len(variables[r]) /\ Len(result[r]) = Len(variables[r])
          /\ pc[r] = "failed" => errKind[r] \in {"CapacityShortfall", "NoSchedule", "Unexpected"}
          /\ pc[r] = "search" => IndexedByFrames(r))
  /\ [][\A r \in Requests :
          /\ Terminal(r) => pc'[r] = pc[r]
          /\ (pc[r] = "search" /\ SearchPosition(r)' # SearchPosition(r)) =>
               LexLess(SearchPosition(r), SearchPosition(r)')]_vars

\* the search has ended at level 0 after every candidate of the first variable was
\* assigned and popped again
C25_Witness ==
  /\ pc[1] = "failed"
  /\ errKind[1] = "NoSchedule"
  /\ cursor[1] > 1
  /\ Len(variables[1]) >= 2
  /\ assignments[1] = <<>>

\* minutes since midnight of a wall-clock time, with or without seconds
Minutes(t) == t[1] * 60 + t[2]

\* the timeslot rows request r has written or can see
SlotRows(r) == Range(timeslots) \cup Range(pendingSlots[r])

\* C26: no session straddles a break: for every assignment the wall-clock interval from
\* the start of block start_block to the end of block end_block - 1 is exactly 90 minutes
\* for 2 blocks and 45 minutes for 1 block, and equals the duration written to the
\* timeslot row the assignment is persisted with.
C26_NoStraddle ==
  \A r \in Requests :
    /\ \A k \in 1..Len(assignments[r]) :
         LET a == assignments[r][k]
         IN /\ a.variable.duration_blocks \in {1, 2}
            /\ Minutes(EndTime(a)) - Minutes(StartTime(a)) =
                 (IF a.variable.duration_blocks = 2 THEN 90 ELSE 45)
            /\ Minutes(EndTime(a)) - Minutes(StartTime(a)) = DurationMinutes(a.variable)
            /\ \A t \in SlotRows(r) :
                 (k <= Len(result[r]) /\ t.day = a.day
                  /\ t.start_time = WithSeconds(StartTime(a))
                  /\ t.end_time = WithSeconds(EndTime(a))) =>
                   t.duration = Minutes(EndTime(a)) - Minutes(StartTime(a))
    /\ \A t \in SlotRows(r) :
         /\ t.duration \in {45, 90}
         /\ Minutes(t.end_time) - Minutes(t.start_time) = t.duration

\* a saved run with a one-block and a two-block session, each with its timeslot row
C26_Witness ==
  /\ pc[1] = "done"
  /\ \E i, j \in 1..Len(assignments[1]) :
       /\ assignments[1][i].variable.duration_blocks = 1
       /\ assignments[1][j].variable.duration_blocks = 2
       /\ \E t \in Range(timeslots) :
            t.start_time = WithSeconds(StartTime(assignments[1][i])) /\ t.duration = 45
       /\ \E t \in Range(timeslots) :
            /\ t.start_time = WithSeconds(StartTime(assignments[1][j]))
            /\ t.duration = 90
            /\ t.timeslot_id > 1

\* timeslot row t is the row for the day and wall-clock start and end of assignment a
SlotOf(t, a) ==
  /\ t.day = a.day
  /\ t.start_time = WithSeconds(StartTime(a))
  /\ t.end_time = WithSeconds(EndTime(a))

\* some run has cleared the schedule table: every row in it was written by a run
Cleared == \E r \in Requests : pc[r] \in {"save_loop", "done"}

\* C27: ensure_timeslot is an upsert keyed by (day, start, end): whatever runs have
\* succeeded, the timeslot table has at most one row per (day, start, end), and every
\* persisted schedule row references the timeslot row matching the day and wall-clock
\* start and end of its assignment.
C27_TimeslotUpsert ==
  /\ \A i, j \in 1..Len(timeslots) :
       (/\ timeslots[i].day = timeslots[j].day
        /\ timeslots[i].start_time = timeslots[j].start_time
        /\ timeslots[i].end_time = timeslots[j].end_time) => i = j
  /\ Cleared =>
       \A i \in 1..Len(schedule) :
         \E r \in Requests : \E k \in 1..Len(assignments[r]) : \E t \in Range(timeslots) :
           /\ SlotOf(t, assignments[r][k])
           /\ schedule[i] = ScheduleEntry(assignments[r][k], t.timeslot_id)

\* the schedule table holds exactly the rows of the run of request r: one row per
\* assignment, in order, with the ids of the assignment and the id of its timeslot row
ExactlyRunRows(r) ==
  /\ Len(schedule) = Len(assignments[r])
  /\ \A k \in 1..Len(schedule) :
       LET a == assignments[r][k]
       IN /\ \E t \in Range(timeslots) :
               SlotOf(t, a) /\ schedule[k].timeslot_id = t.timeslot_id
          /\ schedule[k].course_id = a.variable.course_id
          /\ schedule[k].group_id = a.variable.group_id
          /\ schedule[k].section_id = a.variable.section_id
          /\ (a.variable.session_type = "LECTURE") = (schedule[k].section_id = NULL)
          /\ schedule[k].room_id = a.room_id
          /\ schedule[k].instructor_id = a.instructor_id
          /\ schedule[k].ta_id = a.ta_id
          /\ schedule[k].session_type = a.variable.session_type

\* C28: when a run succeeds, the persisted schedule consists of exactly the rows of this
\* run, one per assignment with its course, group, section (null for lectures), room,
\* timeslot, instructor or TA and session type, and no row of an earlier schedule remains.
C28_ExactlyThisRun ==
  [][\A r \in Requests : (pc[r] # "done" /\ pc'[r] = "done") => ExactlyRunRows(r)']_vars

\* C29: round trip through persistence: for every assignment the solver can place (every
\* element of a variable's domain) the timeslot row _save_schedule writes for it is read
\* back by GET /api/schedule with the assignment's start_block and duration_blocks, and
\* after a saved run the k-th response carries the day, start_block and duration_blocks of
\* the k-th assignment.
C29_RoundTrip ==
  \A r \in Requests :
    /\ InFrame(r) =>
         LET dom == FrameDomain(r)
         IN \A i \in 1..Len(dom) :
              /\ BlockInfo(NewSlot(dom[i])).start_block = dom[i].start_block
              /\ BlockInfo(NewSlot(dom[i])).duration_blocks = dom[i].variable.duration_blocks
              /\ BlockInfo(NewSlot(dom[i])).day = dom[i].day
    /\ Succeeded(r) =>
         /\ Len(GetSchedule) = Len(assignments[r])
         /\ \A k \in 1..Len(assignments[r]) :
              /\ GetSchedule[k].start_block = assignments[r][k].start_block
              /\ GetSchedule[k].duration_blocks = assignments[r][k].variable.duration_blocks
              /\ GetSchedule[k].day = assignments[r][k].day
              /\ GetSchedule[k].session_type = assignments[r][k].variable.session_type

\* a saved run whose schedule is read back with a one-block session at odd block 5 and a
\* two-block session at block 2
C29_Witness ==
  /\ Succeeded(1)
  /\ \E j, k \in 1..Len(schedule) :
       /\ GetSchedule[j].start_block = 5
       /\ GetSchedule[j].duration_blocks = 1
       /\ assignments[1][j].start_block = 5
       /\ GetSchedule[k].start_block = 2
       /\ GetSchedule[k].duration_blocks = 2
       /\ assignments[1][k].start_block = 2

\* the sum of num_students over the rows of a table
RECURSIVE SumStudents(_)
SumStudents(table) ==
  IF table = <<>> THEN 0
  ELSE table[1].num_students + SumStudents(SubSeq(table, 2, Len(table)))

\* C30: in every state reachable by create_level, update_level, delete_group and
\* delete_section, every level's total_students is the sum of its groups' num_students,
\* every group's num_students is the sum of its sections' num_students, and every section
\* has at least one student.
C30_CohortSizes ==
  /\ \A l \in Range(levels) :
       l.total_students = SumStudents(SelectSeq(groups, LAMBDA g : g.level_id = l.level_id))
  /\ \A g \in Range(groups) :
       g.num_students = SumStudents(SelectSeq(sections, LAMBDA x : x.group_id = g.group_id))
  /\ \A x \in Range(sections) : x.num_students >= 1

=============================================================================
